---- MODULE Spec2Model ----
(***************************************************************************)
(* Model of the encrypted wallet store (src/wallet.js, class SolanaWallet) *)
(* and of the priority-fee estimate used by the AMM swap script            *)
(* (src/src/amm/swap.ts).                                                  *)
(*                                                                         *)
(* Cryptography is modelled symbolically: PBKDF2 is an injective function  *)
(* of (password, salt), an AES-256-GCM ciphertext is the term              *)
(* (key, iv, plaintext) and the GCM tag is the term (key, iv, ciphertext). *)
(* Text encodings are modelled by what they do: a hex text is a byte       *)
(* string together with its spelling, toString("hex") always spells lower  *)
(* case and Buffer.from(_, "hex") ignores the spelling.                    *)
(***************************************************************************)
EXTENDS Integers, Sequences, FiniteSets, TLC

\* ------------------------------------------------------------------ bounds
MaxSeed == 2        \* ed25519 seeds are 1..MaxSeed
MaxRand == 2        \* crypto.randomBytes yields one of 1..MaxRand

Seeds == 1..MaxSeed
RandomBytes == {<<n>> : n \in 1..MaxRand}

Wallets == {"wallet"}   \* the variable holding the current SolanaWallet object
Files == {"wallet.json"}
Passwords == {"", "pw1", "pw2"}
ForeignPassword == "pw1"   \* the password other programs encrypt under

VARIABLES
  keypair,        \* this.keypair of the current SolanaWallet object
  fs,             \* content of each file name
  written,        \* history: the record last written to each file, with the
                  \* password and plaintext it was produced from
  everLoaded,     \* history: has create/load ever completed on the wallet
  last,           \* history: the call that produced this state and its outcome
  pc,             \* position of swap()
  rpc,            \* outcome of the fee-estimate request
  level,          \* priorityLevel argument of getPriorityFeeEstimate
  fee,            \* value returned by getPriorityFeeEstimate
  microLamports   \* computeBudgetConfig.microLamports of the final transaction

walletVars == <<keypair, fs, written, everLoaded, last>>
swapVars == <<pc, rpc, level, fee, microLamports>>
vars == <<keypair, fs, written, everLoaded, last, pc, rpc, level, fee, microLamports>>

\* ------------------------------------------------------------ error values
NoError == "none"
NoWalletLoaded == "No wallet loaded"
PasswordRequiredCreate == "Password is required to create a wallet"
PasswordRequiredSave == "Password is required to save the wallet"
PasswordRequiredLoad == "Password is required to load the wallet"
AuthenticationError == "Failed to decrypt wallet. Invalid password or corrupted file."
StorageError == "ENOENT or SyntaxError from reading the file"
BadSecretKey == "bad secret key size / provided secretKey is invalid"
FormatError == "FormatError"

\* ------------------------------------------------------------ text codecs
NULL == [null |-> TRUE]

\* Buffer.prototype.toString("hex"): lower-case hex digits.
HexEncode(bytes) == [bytes |-> bytes, spelling |-> "lower"]

\* Buffer.from(text, "hex"): the digits' case is ignored.
HexDecode(text) == text.bytes

\* The same bytes written with upper-case hex digits: a different text.
UpperCase(text) == [bytes |-> text.bytes, spelling |-> "upper"]

\* PublicKey.prototype.toString(): the base58 text of the key bytes.
Base58(pk) == <<"base58", pk>>

\* ---------------------------------------------------------------- keypairs
\* ed25519: the public key derived from a seed.
PublicOf(seed) == 10 + seed

\* Keypair.generate(): secretKey is seed || publicKey.
KeypairOf(seed) ==
  [secretKey |-> <<seed, PublicOf(seed)>>, publicKey |-> PublicOf(seed)]

Keypairs == {KeypairOf(s) : s \in Seeds}

\* Keypair.fromSecretKey(secretKey): throws on a wrong size and when the
\* public half is not the key derived from the seed half.
FromSecretKey(secretKey) ==
  IF Len(secretKey) = 2 /\ secretKey[2] = PublicOf(secretKey[1])
  THEN [ok |-> TRUE,
        keypair |-> [secretKey |-> secretKey, publicKey |-> secretKey[2]]]
  ELSE [ok |-> FALSE, keypair |-> NULL]

\* Secret keys a caller may pass: the valid ones, one whose halves do not
\* match, and one of the wrong size.
SecretKeyBytes ==
  {k.secretKey : k \in Keypairs} \cup {<<1, PublicOf(2)>>, <<1>>}

SecretKeyHexInputs ==
  {HexEncode(b) : b \in SecretKeyBytes} \cup
  {UpperCase(HexEncode(KeypairOf(1).secretKey))}

\* saveWalletToFile, lines 90-93.
WalletData(kp) ==
  [publicKey |-> Base58(kp.publicKey),
   secretKey |-> HexEncode(kp.secretKey)]

\* JSON.stringify / JSON.parse of the plaintext.
Stringify(obj) == [json |-> TRUE, hasSecretKey |-> TRUE, obj |-> obj]

GarbageText ==
  [json |-> FALSE, hasSecretKey |-> FALSE, obj |-> WalletData(KeypairOf(1))]

NoSecretKeyText ==
  [json |-> TRUE, hasSecretKey |-> FALSE, obj |-> WalletData(KeypairOf(1))]

Parse(text) ==
  IF text.json THEN [ok |-> TRUE, hasSecretKey |-> text.hasSecretKey, obj |-> text.obj]
  ELSE [ok |-> FALSE, hasSecretKey |-> FALSE, obj |-> text.obj]

\* Plaintexts another program holding a password could have encrypted.
ForeignTexts ==
  {GarbageText, NoSecretKeyText,
   Stringify([publicKey |-> Base58(PublicOf(1)), secretKey |-> HexEncode(<<1, PublicOf(2)>>)]),
   Stringify([publicKey |-> Base58(PublicOf(1)), secretKey |-> HexEncode(<<1>>)]),
   Stringify([publicKey |-> Base58(PublicOf(1)), secretKey |-> UpperCase(HexEncode(KeypairOf(2).secretKey))])}

\* ------------------------------------------------------------ cryptography
\* #deriveKey: PBKDF2-SHA256, a function of password and salt.
DeriveKeyIgnoresPassword(password, salt) == [pw |-> "", salt |-> salt]

DeriveKey(password, salt) == [pw |-> password, salt |-> salt]

\* AES-256-GCM under (key, iv): ciphertext bytes and tag bytes.
GcmCiphertext(key, iv, text) == [key |-> key, iv |-> iv, pt |-> text]

GcmTag(key, iv, ct) == [key |-> key, iv |-> iv, ct |-> ct]

\* #encrypt(text, password), with the two randomBytes draws as arguments.
EncryptTagBeforeFinal(text, password, salt, iv) ==
  LET key == DeriveKey(password, salt)
      ct == GcmCiphertext(key, iv, text)
  IN [encrypted |-> HexEncode(ct),
      iv |-> HexEncode(iv),
      authTag |-> HexEncode(GcmTag(key, iv, GcmCiphertext(key, iv, GarbageText))),
      salt |-> HexEncode(salt)]

Encrypt(text, password, salt, iv) ==
  LET key == DeriveKey(password, salt)
      ct == GcmCiphertext(key, iv, text)
  IN [encrypted |-> HexEncode(ct),
      iv |-> HexEncode(iv),
      authTag |-> HexEncode(GcmTag(key, iv, ct)),
      salt |-> HexEncode(salt)]

\* #decrypt(encrypted, password, iv, authTag, salt): decipher.final() throws
\* unless the tag is the tag of (key, iv, ciphertext).
Decrypt(encrypted, password, iv, authTag, salt) ==
  LET key == DeriveKey(password, HexDecode(salt))
      ct == HexDecode(encrypted)
      verified == HexDecode(authTag) = GcmTag(key, HexDecode(iv), ct)
  IN [ok |-> verified, text |-> IF verified THEN ct.pt ELSE GarbageText]

\* ------------------------------------------------------------------- files
Absent == [kind |-> "absent"]
NotJson == [kind |-> "garbage"]
JsonFile(data) == [kind |-> "json", data |-> data]

NotWritten == [by |-> "none"]
NoReturn == <<"undefined", 0>>

\* saveWalletToFile, lines 99-106.
FileData(walletData, encryptedData) ==
  [version |-> "1.0",
   encrypted |-> encryptedData.encrypted,
   iv |-> encryptedData.iv,
   authTag |-> encryptedData.authTag,
   salt |-> encryptedData.salt,
   publicKey |-> walletData.publicKey]

\* saveWalletToFile, lines 83-88: the order of the two checks.
SaveErrorPasswordFirst(kp, password) ==
  IF password = "" THEN PasswordRequiredSave
  ELSE IF kp = NULL THEN NoWalletLoaded
  ELSE NoError

SaveError(kp, password) ==
  IF kp = NULL THEN NoWalletLoaded
  ELSE IF password = "" THEN PasswordRequiredSave
  ELSE NoError

\* loadWalletFromFile up to the point where the keypair would be assigned:
\* the error raised, whether #deriveKey ran, and the keypair and return value
\* of loadWalletFromPrivateKey on success.
LoadFailure(err, derived) ==
  [err |-> err, derived |-> derived, keypair |-> NULL, ret |-> NoReturn]

LoadCore(content, password) ==
  IF password = "" THEN LoadFailure(PasswordRequiredLoad, FALSE)
  ELSE IF content.kind # "json" THEN LoadFailure(StorageError, FALSE)
  ELSE
    LET fileData == content.data
        dec == Decrypt(fileData.encrypted, password, fileData.iv,
                       fileData.authTag, fileData.salt)
        walletData == Parse(dec.text)
        loaded == FromSecretKey(HexDecode(walletData.obj.secretKey))
    IN IF ~dec.ok THEN LoadFailure(AuthenticationError, TRUE)
       ELSE IF ~walletData.ok THEN LoadFailure(AuthenticationError, TRUE)
       ELSE IF ~walletData.hasSecretKey THEN LoadFailure(AuthenticationError, TRUE)
       ELSE IF ~loaded.ok THEN LoadFailure(AuthenticationError, TRUE)
       ELSE [err |-> NoError, derived |-> TRUE, keypair |-> loaded.keypair,
             ret |-> Base58(loaded.keypair.publicKey)]

\* loadWalletFromFile as a function of the wallet's keypair before the call,
\* the file content and the password: this.keypair is assigned (line 77)
\* only after Keypair.fromSecretKey has returned.
LoadOutcomeClearsOnFailure(pre, content, password) ==
  LET c == LoadCore(content, password)
  IN [err |-> c.err, derived |-> c.derived, ret |-> c.ret,
      keypair |-> c.keypair]

LoadOutcomeTrustsPlainKey(pre, content, password) ==
  LET c == LoadCore(content, password)
  IN [err |-> c.err, derived |-> c.derived,
      ret |-> IF c.err = NoError THEN content.data.publicKey ELSE c.ret,
      keypair |-> IF c.err = NoError THEN c.keypair ELSE pre]

LoadOutcome(pre, content, password) ==
  LET c == LoadCore(content, password)
  IN [err |-> c.err, derived |-> c.derived, ret |-> c.ret,
      keypair |-> IF c.err = NoError THEN c.keypair ELSE pre]

Call(op, w, f, pw, err, ret, pre, derived) ==
  [op |-> op, w |-> w, f |-> f, pw |-> pw, err |-> err, ret |-> ret,
   pre |-> pre, derived |-> derived]

\* ------------------------------------------- priority fee (src/amm/swap.ts)
MinPriorityFee == 10000

\* JavaScript values that can reach Math.max.
Num(n) == [t |-> "number", v |-> n]
Undefined == [t |-> "undefined", v |-> 0]
NaN == [t |-> "NaN", v |-> 0]

IsNumberAtLeast(x, n) == x.t = "number" /\ x.v >= n

\* ToNumber: undefined becomes NaN.
ToNumber(x) == IF x.t = "undefined" THEN NaN ELSE x

\* Math.max(a, b): NaN if either argument converts to NaN.
MathMax(a, b) ==
  LET x == ToNumber(a)
      y == ToNumber(b)
  IN IF x.t = "NaN" \/ y.t = "NaN" THEN NaN
     ELSE IF x.v >= y.v THEN x ELSE y

\* Truthiness of a value in an if condition.
Truthy(x) == x.t = "number" /\ x.v # 0

LevelKeys == {"min", "low", "medium", "high", "veryHigh", "unsafeMax"}
PriorityLevels == {"Min", "Low", "Medium", "High", "VeryHigh", "UnsafeMax", "Turbo"}
LevelValues == {Undefined, Num(5000), Num(20000)}
EstimateValues == {Undefined, Num(0), Num(5000), Num(20000)}

\* Outcomes of the fetch and of response.json().
FeeResponses ==
  {[kind |-> "networkFailure"], [kind |-> "rpcError"], [kind |-> "noResult"],
   [kind |-> "emptyResult"]}
  \cup {[kind |-> "levels", levels |-> l] : l \in [LevelKeys -> LevelValues]}
  \cup {[kind |-> "estimate", estimate |-> e] : e \in EstimateValues}

NoResponse == [kind |-> "none"]

\* The switch of lines 53-74.
SelectLevel(levels, priorityLevel) ==
  CASE priorityLevel = "Min" -> levels["min"]
    [] priorityLevel = "Low" -> levels["low"]
    [] priorityLevel = "Medium" -> levels["medium"]
    [] priorityLevel = "High" -> levels["high"]
    [] priorityLevel = "VeryHigh" -> levels["veryHigh"]
    [] priorityLevel = "UnsafeMax" -> levels["unsafeMax"]
    [] OTHER -> levels["medium"]

\* getPriorityFeeEstimate(transaction, priorityLevel) for one response.
PriorityFeeOf(priorityLevel, data) ==
  CASE data.kind = "networkFailure" -> Num(MinPriorityFee)
    [] data.kind = "rpcError" -> Num(MinPriorityFee)
    [] data.kind = "noResult" -> Num(MinPriorityFee)
    [] data.kind = "levels" ->
         MathMax(SelectLevel(data.levels, priorityLevel), Num(MinPriorityFee))
    [] data.kind = "estimate" ->
         IF Truthy(data.estimate)
         THEN MathMax(data.estimate, Num(MinPriorityFee))
         ELSE Num(MinPriorityFee)
    [] data.kind = "emptyResult" -> Num(MinPriorityFee)

\* ------------------------------------------------------------------- state
Init ==
  /\ keypair = [w \in Wallets |-> NULL]
  /\ fs = [f \in Files |-> Absent]
  /\ written = [f \in Files |-> NotWritten]
  /\ everLoaded = [w \in Wallets |-> FALSE]
  /\ last = Call("constructor", "wallet", "", "", NoError, NoReturn, NULL, FALSE)
  /\ pc = "idle"
  /\ rpc = NoResponse
  /\ level = "none"
  /\ fee = Undefined
  /\ microLamports = Undefined

\* new SolanaWallet(): a fresh object replaces the current one; files stay.
Constructor(w) ==
  /\ keypair' = [keypair EXCEPT ![w] = NULL]
  /\ everLoaded' = [everLoaded EXCEPT ![w] = FALSE]
  /\ last' = Call("constructor", w, "", "", NoError, NoReturn, NULL, FALSE)
  /\ UNCHANGED <<fs, written, swapVars>>

\* createWallet(password); the seed is the draw of Keypair.generate().
CreateWallet(w, password) ==
  /\ IF password = ""
     THEN /\ last' = Call("createWallet", w, "", "",
                          PasswordRequiredCreate, NoReturn, NULL, FALSE)
          /\ UNCHANGED <<keypair, everLoaded>>
     ELSE \E seed \in Seeds :
          /\ keypair' = [keypair EXCEPT ![w] = KeypairOf(seed)]
          /\ everLoaded' = [everLoaded EXCEPT ![w] = TRUE]
          /\ last' = Call("createWallet", w, "", "", NoError,
                          Base58(KeypairOf(seed).publicKey), NULL, FALSE)
  /\ UNCHANGED <<fs, written, swapVars>>

\* loadWalletFromPrivateKey(secretKeyHex)
LoadWalletFromPrivateKey(w, secretKeyHex) ==
  LET loaded == FromSecretKey(HexDecode(secretKeyHex))
  IN /\ IF loaded.ok
        THEN /\ keypair' = [keypair EXCEPT ![w] = loaded.keypair]
             /\ everLoaded' = [everLoaded EXCEPT ![w] = TRUE]
             /\ last' = Call("loadWalletFromPrivateKey", w, "", "", NoError,
                             Base58(loaded.keypair.publicKey), NULL, FALSE)
        ELSE /\ last' = Call("loadWalletFromPrivateKey", w, "", "",
                             BadSecretKey, NoReturn, NULL, FALSE)
             /\ UNCHANGED <<keypair, everLoaded>>
     /\ UNCHANGED <<fs, written, swapVars>>

\* saveWalletToFile(filename, password); salt and iv are the randomBytes
\* draws of #encrypt.
SaveWalletToFile(w, f, password) ==
  LET err == SaveError(keypair[w], password)
  IN /\ last' = Call("saveWalletToFile", w, f, "", err, NoReturn,
                     NULL, err = NoError)
     /\ IF err = NoError
        THEN \E salt \in RandomBytes, iv \in RandomBytes :
             LET walletData == WalletData(keypair[w])
                 text == Stringify(walletData)
                 fileData == FileData(walletData,
                                      Encrypt(text, password, salt, iv))
             IN /\ fs' = [fs EXCEPT ![f] = JsonFile(fileData)]
                /\ written' = [written EXCEPT ![f] =
                     [by |-> "save", rec |-> fileData, pw |-> password,
                      text |-> text, keypair |-> keypair[w]]]
        ELSE UNCHANGED <<fs, written>>
     /\ UNCHANGED <<keypair, everLoaded, swapVars>>

\* loadWalletFromFile(filename, password)
LoadWalletFromFile(w, f, password) ==
  LET out == LoadOutcome(keypair[w], fs[f], password)
  IN /\ keypair' = [keypair EXCEPT ![w] = out.keypair]
     /\ everLoaded' = [everLoaded EXCEPT ![w] = @ \/ out.err = NoError]
     /\ last' = Call("loadWalletFromFile", w, f, password, out.err, out.ret,
                     keypair[w], out.derived)
     /\ UNCHANGED <<fs, written, swapVars>>

\* getPublicKey()
GetPublicKey(w) ==
  /\ last' = IF keypair[w] = NULL
             THEN Call("getPublicKey", w, "", "", NoWalletLoaded, NoReturn,
                       NULL, FALSE)
             ELSE Call("getPublicKey", w, "", "", NoError,
                       Base58(keypair[w].publicKey), NULL, FALSE)
  /\ UNCHANGED <<keypair, everLoaded, fs, written, swapVars>>

\* ------------------------------------------------------------- environment
JunkKey == DeriveKey("junk", <<0>>)
JunkCiphertext == GcmCiphertext(JunkKey, <<0>>, GarbageText)
JunkTag == GcmTag(JunkKey, <<0>>, JunkCiphertext)

TamperFields == {"version", "encrypted", "iv", "authTag", "salt", "publicKey"}

\* Values a single field of a stored record may be changed to.
TamperValues(field, data) ==
  CASE field = "version" -> {"2.0"}
    [] field = "encrypted" -> {UpperCase(data.encrypted), HexEncode(JunkCiphertext)}
    [] field = "authTag" -> {UpperCase(data.authTag), HexEncode(JunkTag)}
    [] field = "iv" -> {UpperCase(data.iv)} \cup
                       {HexEncode(b) : b \in RandomBytes \ {HexDecode(data.iv)}}
    [] field = "salt" -> {UpperCase(data.salt)} \cup
                         {HexEncode(b) : b \in RandomBytes \ {HexDecode(data.salt)}}
    [] field = "publicKey" -> {Base58(p) : p \in ({PublicOf(s) : s \in Seeds} \cup {0})
                                                  \ {data.publicKey[2]}}

\* Somebody edits one field of the stored record.
TamperFile(f, field) ==
  /\ fs[f].kind = "json"
  /\ written[f].by # "none"
  /\ fs[f].data = written[f].rec
  /\ \E v \in TamperValues(field, fs[f].data) :
       fs' = [fs EXCEPT ![f] = JsonFile([fs[f].data EXCEPT ![field] = v])]
  /\ last' = Call("tamper", "", f, "", NoError, NoReturn, NULL, FALSE)
  /\ UNCHANGED <<keypair, everLoaded, written, swapVars>>

\* Another program writes a record it encrypted itself.
WriteForeignFile(f, text, password, salt, iv) ==
  LET fileData == FileData(text.obj, Encrypt(text, password, salt, iv))
  IN /\ fs' = [fs EXCEPT ![f] = JsonFile(fileData)]
     /\ written' = [written EXCEPT ![f] =
          [by |-> "foreign", rec |-> fileData, pw |-> password,
           text |-> text, keypair |-> NULL]]
     /\ last' = Call("foreign", "", f, "", NoError, NoReturn, NULL, FALSE)
     /\ UNCHANGED <<keypair, everLoaded, swapVars>>

\* The file is removed, or overwritten with something that is not JSON.
ReplaceFile(f, content) ==
  /\ fs[f] # content
  /\ fs' = [fs EXCEPT ![f] = content]
  /\ written' = [written EXCEPT ![f] = NotWritten]
  /\ last' = Call("replace", "", f, "", NoError, NoReturn, NULL, FALSE)
  /\ UNCHANGED <<keypair, everLoaded, swapVars>>

Next ==
  \/ \E w \in Wallets : Constructor(w)
  \/ \E w \in Wallets, pw \in Passwords : CreateWallet(w, pw)
  \/ \E w \in Wallets, h \in SecretKeyHexInputs : LoadWalletFromPrivateKey(w, h)
  \/ \E w \in Wallets, f \in Files, pw \in Passwords : SaveWalletToFile(w, f, pw)
  \/ \E w \in Wallets, f \in Files, pw \in Passwords : LoadWalletFromFile(w, f, pw)
  \/ \E w \in Wallets : GetPublicKey(w)
  \/ \E f \in Files, field \in TamperFields : TamperFile(f, field)
  \/ \E f \in Files, text \in ForeignTexts :
        WriteForeignFile(f, text, ForeignPassword, <<1>>, <<1>>)
  \/ \E f \in Files, content \in {Absent, NotJson} : ReplaceFile(f, content)

Spec == Init /\ [][Next]_vars

\* -------------------------------------------------------------------- swap
\* swap() up to the quote: the pool is fetched and checked (lines 95-140);
\* a pool that is not an AMM pool or does not hold the input mint throws.
SwapQuote(poolOk) ==
  /\ pc = "idle"
  /\ pc' = IF poolOk THEN "quoted" ELSE "failed"
  /\ UNCHANGED <<rpc, level, fee, microLamports, walletVars>>

\* The transaction without a priority fee is built and serialized
\* (lines 155-166).
SwapBuildTransaction ==
  /\ pc = "quoted"
  /\ pc' = "built"
  /\ UNCHANGED <<rpc, level, fee, microLamports, walletVars>>

\* const priorityFee = await getPriorityFeeEstimate(serializedTx, 'High')
SwapEstimate(data) ==
  /\ pc = "built"
  /\ rpc' = data
  /\ level' = "High"
  /\ fee' = PriorityFeeOf("High", data)
  /\ pc' = "estimated"
  /\ UNCHANGED <<microLamports, walletVars>>

\* The transaction is built again with computeBudgetConfig (lines 172-186).
SwapBuildWithPriorityFee ==
  /\ pc = "estimated"
  /\ microLamports' = fee
  /\ pc' = "final"
  /\ UNCHANGED <<rpc, level, fee, walletVars>>

\* executeWithPriorityFee({ sendAndConfirm: true }); process.exit()
SwapExecute ==
  /\ pc = "final"
  /\ pc' = "done"
  /\ UNCHANGED <<rpc, level, fee, microLamports, walletVars>>

\* getPriorityFeeEstimate applied to any priority level and response.
GetPriorityFeeEstimate(priorityLevel, data) ==
  /\ pc = "idle"
  /\ rpc' = data
  /\ level' = priorityLevel
  /\ fee' = PriorityFeeOf(priorityLevel, data)
  /\ pc' = "returned"
  /\ UNCHANGED <<microLamports, walletVars>>

SwapNext ==
  \/ \E poolOk \in BOOLEAN : SwapQuote(poolOk)
  \/ SwapBuildTransaction
  \/ \E data \in FeeResponses : SwapEstimate(data)
  \/ SwapBuildWithPriorityFee
  \/ SwapExecute
  \/ \E l \in PriorityLevels, data \in FeeResponses : GetPriorityFeeEstimate(l, data)

SpecSwap == Init /\ [][SwapNext]_vars

\* ------------------------------------------------------------- properties
IsLoad == last.op = "loadWalletFromFile"

\* The file the last call named holds a record exactly as saveWalletToFile
\* wrote it.
SavedIntact(f) ==
  /\ written[f].by = "save"
  /\ fs[f] = JsonFile(written[f].rec)

\* The file holds a record exactly as it was encrypted (by this program or
\* by another one).
EncryptedIntact(f) ==
  /\ written[f].by # "none"
  /\ fs[f] = JsonFile(written[f].rec)

\* The stored record differs from the saved one in exactly the given field.
OnlyFieldChanged(f, field) ==
  /\ written[f].by = "save"
  /\ fs[f].kind = "json"
  /\ fs[f].data[field] # written[f].rec[field]
  /\ \A g \in TamperFields \ {field} : fs[f].data[g] = written[f].rec[g]

\* C1: a record written by saveWalletToFile(f, pw) from a loaded keypair and
\* then read by loadWalletFromFile(f, pw), on the saving wallet or on a
\* wallet object constructed later, loads without error, returns the base58 public key
\* of the saved keypair and leaves the wallet holding a keypair equal to the
\* saved one.
C1_RoundTrip ==
  (IsLoad /\ SavedIntact(last.f) /\ last.pw = written[last.f].pw)
    => /\ last.err = NoError
       /\ last.ret = Base58(written[last.f].keypair.publicKey)
       /\ keypair[last.w] = written[last.f].keypair

\* A fresh wallet object has loaded the record an earlier object saved.
C1_Witness ==
  /\ IsLoad /\ SavedIntact(last.f) /\ last.pw = written[last.f].pw
  /\ last.pre = NULL
  /\ last.err = NoError
  /\ keypair[last.w] = written[last.f].keypair

\* C2: a record encrypted under pw1 is never decrypted by a different
\* password pw2: #decrypt fails for every such pw2, and loadWalletFromFile
\* with pw2 returns nothing, leaves the keypair as it was and, whenever it
\* gets as far as decrypting, fails with the decryption error.
C2_WrongPasswordRejected ==
  /\ \A f \in Files : EncryptedIntact(f) =>
       \A pw2 \in Passwords \ {written[f].pw} :
         ~Decrypt(fs[f].data.encrypted, pw2, fs[f].data.iv,
                  fs[f].data.authTag, fs[f].data.salt).ok
  /\ (IsLoad /\ EncryptedIntact(last.f) /\ last.pw # written[last.f].pw)
       => /\ last.err # NoError
          /\ last.ret = NoReturn
          /\ keypair[last.w] = last.pre
          /\ (last.derived => last.err = AuthenticationError)
          /\ (last.pw # "" => last.derived)

\* A saved record was loaded with another non-empty password and rejected.
C2_Witness ==
  /\ IsLoad /\ SavedIntact(last.f)
  /\ last.pw \notin {"", written[last.f].pw}
  /\ last.derived
  /\ last.err = AuthenticationError

\* C3: after exactly one of the fields encrypted, iv, authTag, salt of a
\* saved record has been changed to a different value, loadWalletFromFile
\* with the password the record was saved under fails with the decryption
\* error.
C3_TamperDetected ==
  (/\ IsLoad
   /\ \E field \in {"encrypted", "iv", "authTag", "salt"} :
        OnlyFieldChanged(last.f, field)
   /\ last.pw = written[last.f].pw)
    => last.err = AuthenticationError

\* C4: loading a record whose version is not "1.0" with a non-empty password
\* fails with a format error before any key is derived.
C4_VersionGuard ==
  (IsLoad /\ last.pw # "" /\ fs[last.f].kind = "json"
     /\ fs[last.f].data.version # "1.0")
    => (last.err = FormatError /\ ~last.derived)

\* C5: after only the version field of a saved record has been changed,
\* loadWalletFromFile with the password the record was saved under fails.
C5_TagCoversVersion ==
  (IsLoad /\ OnlyFieldChanged(last.f, "version")
     /\ last.pw = written[last.f].pw)
    => last.err # NoError

\* C6: whenever loadWalletFromFile fails, whatever the cause, it returns
\* nothing and the wallet's keypair is what it was before the call.
C6_FailClosed ==
  (IsLoad /\ last.err # NoError)
    => /\ last.ret = NoReturn
       /\ keypair[last.w] = last.pre
       /\ everLoaded[last.w] = (last.pre # NULL)

\* A wallet that held a keypair failed to load a correctly authenticated
\* record whose secret key is invalid, and still holds its keypair.
C6_Witness ==
  /\ IsLoad
  /\ last.err = AuthenticationError
  /\ last.pre # NULL
  /\ keypair[last.w] = last.pre
  /\ EncryptedIntact(last.f)
  /\ last.pw = written[last.f].pw

\* C8: the plaintext publicKey field has no influence on loadWalletFromFile:
\* replacing it by any other value changes neither the error, nor the value
\* returned, nor the keypair installed, for any password and any keypair
\* held before; and after a successful load the keypair is the one rebuilt
\* from the decrypted secret key and the value returned is its public key.
C8_PlainKeyNotTrusted ==
  /\ \A f \in Files : fs[f].kind = "json" =>
       \A v \in TamperValues("publicKey", fs[f].data), pw \in Passwords,
          w \in Wallets :
         LoadOutcome(keypair[w], JsonFile([fs[f].data EXCEPT !.publicKey = v]), pw)
           = LoadOutcome(keypair[w], fs[f], pw)
  /\ (IsLoad /\ last.err = NoError)
       => /\ written[last.f].by # "none"
          /\ keypair[last.w].secretKey
               = HexDecode(written[last.f].text.obj.secretKey)
          /\ last.ret = Base58(PublicOf(keypair[last.w].secretKey[1]))

\* A record whose plaintext publicKey names another key has been loaded.
C8_Witness ==
  /\ IsLoad /\ last.err = NoError
  /\ fs[last.f].data.publicKey # last.ret
  /\ last.ret = Base58(keypair[last.w].publicKey)

IsGuardedCall == last.op \in {"getPublicKey", "saveWalletToFile"}

\* C10: a wallet holds a keypair exactly when a createWallet,
\* loadWalletFromPrivateKey or loadWalletFromFile has succeeded on it;
\* getPublicKey and saveWalletToFile fail with "No wallet loaded" exactly
\* when none has; the keypair of a wallet object, once set, is never reset
\* to null; and getPublicKey and saveWalletToFile leave the keypair as it is.
C10_LoadedWalletInvariant ==
  /\ [](/\ \A w \in Wallets : everLoaded[w] <=> keypair[w] # NULL
        /\ IsGuardedCall =>
             (last.err = NoWalletLoaded <=> ~everLoaded[last.w]))
  /\ [][/\ \A w \in Wallets :
             (keypair[w] # NULL /\ last'.op # "constructor")
               => keypair'[w] # NULL
        /\ last'.op \in {"getPublicKey", "saveWalletToFile"}
             => keypair' = keypair]_vars

\* saveWalletToFile was refused for a missing password on a loaded wallet
\* while an earlier saved record is on disk.
C10_Witness ==
  /\ last.op = "saveWalletToFile"
  /\ last.err = PasswordRequiredSave
  /\ everLoaded[last.w]
  /\ keypair[last.w] # NULL
  /\ \E f \in Files : SavedIntact(f)

\* C9: every call of getPriorityFeeEstimate returns a number of at least
\* 10000 microLamports, and the final swap transaction is never built with
\* less.
C9_MinimumPriorityFee ==
  /\ level # "none" => IsNumberAtLeast(fee, MinPriorityFee)
  /\ pc \in {"final", "done"} => IsNumberAtLeast(microLamports, MinPriorityFee)

====
